---- MODULE Spec2Model ----
(***************************************************************************)
(* Model of xrasterlib/Raster.py: class Raster.                            *)
(*                                                                         *)
(* A Raster object holds `data` (a labelled array band x row x col),       *)
(* `bands` (a reference to a Python list of band names) and `nodataval`.   *)
(* Python lists are heap objects: `self.bands = bands` stores a reference  *)
(* to the caller's list, so the model keeps the list objects apart from    *)
(* the instances that refer to them.                                       *)
(***************************************************************************)
EXTENDS Integers, Sequences, FiniteSets, TLC

\* ------------------------------------------------------------------ bounds
MaxOps == 3      \* calls made on the instances in one run
NPix == 2        \* pixels (row x col, flattened) of one band
MaxDrop == 2     \* longest list of names given to dropindices

\* ------------------------------------------------------------ the programs
Inst == {1, 2}

\* The caller's band-name list (the local variable `bands` of the unit tests),
\* cut to the three bands the modelled file holds.
FileBands == <<"Blue", "Red", "NIR1">>

Paths == {"toa.tif", "missing.tif"}
isfile(path) == path = "toa.tif"

\* rasterio's read_masks: 0 marks an invalid pixel, 255 a valid one.
MaskInvalid == 0
MaskValid == 255

VARIABLES
    fileNoData,   \* the nodata value stored in toa.tif
    callerBands,  \* contents of the caller's list object `bands`
    ownBands,     \* [Inst -> contents of the list object only that instance holds]
    obj,          \* [Inst -> the instance's attributes]
    outfile,      \* the raster toraster wrote last
    last,         \* history: the call that just ran: arguments, outcome, pre-state
    prior,        \* history: a one-function addindices that was the call before
    nops          \* calls made so far

vars == <<fileNoData, callerBands, ownBands, obj, outfile, last, prior, nops>>

\* --------------------------------------------------------------- helpers
Range(s) == {s[k] : k \in 1..Len(s)}

SeqsUpTo(S, n) == UNION {[1..k -> S] : k \in 0..n}

\* Python's list.index: the position (from 1 here) of the first occurrence;
\* 0 stands for the ValueError of a value that is not in the list.
IndexOf(s, x) ==
    IF x \in Range(s)
    THEN CHOOSE k \in 1..Len(s) : s[k] = x /\ \A j \in 1..(k - 1) : s[j] # x
    ELSE 0

\* ------------------------------------------------------------- the file
NoDataVals == {-9999, 0, 255, 65535}

FilePixel(b, p) == ((3 * b + 5 * p) % 7) - 1

FileScales == <<2, 3, 5>>
FileOffsets == <<0, 1, 1>>

\* A band slice of `data`: its coordinate label on the band dimension, its
\* pixels, and (history) the name under which the slice entered the array.
Slice(label, px, org) == [label |-> label, px |-> px, org |-> org]

\* xr.open_rasterio: bands are labelled 1..N; attrs carry the per-band scales,
\* offsets and nodata values of the file.
open_rasterio(nd) ==
    [data |-> [b \in 1..Len(FileBands) |->
                 Slice(b, [p \in 1..NPix |-> FilePixel(b, p)], FileBands[b])],
     scales |-> FileScales,
     offsets |-> FileOffsets,
     nodatavals |-> [b \in 1..Len(FileBands) |-> nd]]

\* ------------------------------------------------------------ instances
\* st: "none" (no object), "empty" (Raster() without a filename: the object has
\* no data, bands or nodataval attribute), "loaded".
\* ref: what self.bands refers to: "unset", "None", "caller" (the caller's list
\* object) or "own" (a list object no one else holds).
NoObject ==
    [st |-> "none", ref |-> "unset", data |-> <<>>, scales |-> <<>>,
     offsets |-> <<>>, nodataval |-> <<>>]

EmptyObject == [NoObject EXCEPT !.st = "empty"]

HasList(o) == o.ref \in {"caller", "own"}

BandsOf(i) ==
    IF obj[i].ref = "caller" THEN callerBands
    ELSE IF obj[i].ref = "own" THEN ownBands[i]
    ELSE <<>>

\* What an observer of instance i sees: its attributes, the list by content.
View(i) ==
    [st |-> obj[i].st, ref |-> obj[i].ref, bands |-> BandsOf(i),
     data |-> obj[i].data, scales |-> obj[i].scales,
     offsets |-> obj[i].offsets, nodataval |-> obj[i].nodataval]

NoView ==
    [st |-> "none", ref |-> "unset", bands |-> <<>>, data |-> <<>>,
     scales |-> <<>>, offsets |-> <<>>, nodataval |-> <<>>]

Call(op, i, res) ==
    [op |-> op, inst |-> i, res |-> res, path |-> "", bandsArg |-> "",
     cmp |-> "", boundary |-> 0, replace |-> 0, fns |-> <<>>, added |-> <<>>,
     names |-> <<>>, mask |-> <<>>, prediction |-> <<>>, pre |-> [j \in Inst |-> View(j)]]

NoCall == [Call("none", 0, "ok") EXCEPT !.pre = [j \in Inst |-> NoView]]

NoPrior == [valid |-> FALSE, inst |-> 0, name |-> "", pre |-> NoView]

NoFile == [count |-> 0, dtype |-> "", px |-> <<>>]

\* No object is constructed yet; toa.tif holds one of the nodata values nds.
InitWith(nds) ==
    /\ fileNoData \in nds
    /\ callerBands = FileBands
    /\ ownBands = [i \in Inst |-> <<>>]
    /\ obj = [i \in Inst |-> NoObject]
    /\ outfile = NoFile
    /\ last = NoCall
    /\ prior = NoPrior
    /\ nops = 0

Init == InitWith({-9999})

InitWrite == InitWith(NoDataVals)

\* ------------------------------------------------------------- history
PriorOf(l) ==
    IF l.op = "addindices" /\ l.res = "ok" /\ Len(l.fns) = 1
    THEN [valid |-> TRUE, inst |-> l.inst, name |-> l.added[1],
          pre |-> l.pre[l.inst]]
    ELSE NoPrior

\* A method call counts against MaxOps; a constructor call (at most one
\* object per instance) does not.
Record(rec) ==
    /\ last.op = "none"
    /\ nops' = nops + (IF rec.op = "init" THEN 0 ELSE 1)
    /\ last' = rec
    /\ prior' = prior

\* The call returns to the caller, who makes the next call: the history of the
\* call is dropped, but for a one-function addindices the next call may undo.
Return ==
    /\ last.op # "none"
    /\ last' = NoCall
    /\ prior' = PriorOf(last)
    /\ UNCHANGED <<fileNoData, callerBands, ownBands, obj, outfile, nops>>

\* -------------------------------------------------------------- loading
\* The object an instance is after a successful load of the file.
LoadedObject(bandsArg) ==
    LET f == open_rasterio(fileNoData) IN
    [st |-> "loaded",
     ref |-> IF bandsArg = "literal" THEN "own" ELSE bandsArg,
     data |-> f.data, scales |-> f.scales, offsets |-> f.offsets,
     nodataval |-> f.nodatavals]

\* Raster.__init__: its outcome for a filename ("None" when omitted) and a
\* bands argument ("None", the caller's list, or a list literal).
InitOutcome(filename, bandsArg) ==
    IF filename = "None" THEN "empty"
    ELSE IF ~isfile(filename) THEN "NotFound"
    ELSE IF bandsArg = "None" THEN "Config"
    ELSE "ok"

\* Raster.readraster: open_rasterio fails on a path that is no file; nothing
\* else is checked.
ReadOutcome(filename, bandsArg) ==
    IF ~isfile(filename) THEN "NotFound" ELSE "ok"

BandsArgs == {"None", "caller", "literal"}

\* The list object only the instance holds after a load: the literal it was
\* given; a list it held before is garbage.
OwnList(bandsArg) == IF bandsArg = "literal" THEN FileBands ELSE <<>>

\* The arguments of the loads: every bands argument with the file that exists,
\* the caller's list with the other paths.
InitArgs ==
    ({"toa.tif"} \X BandsArgs) \cup ({"missing.tif", "None"} \X {"caller", "None"})

ReadArgs == ({"toa.tif"} \X BandsArgs) \cup ({"missing.tif"} \X {"caller", "None"})

Construct(i, filename, bandsArg) ==
    LET res == InitOutcome(filename, bandsArg) IN
    /\ obj[i].st = "none"
    /\ obj' = [obj EXCEPT ![i] =
                 IF res = "ok" THEN LoadedObject(bandsArg)
                 ELSE IF res = "empty" THEN EmptyObject
                 ELSE @]
    /\ ownBands' = IF res = "ok" THEN [ownBands EXCEPT ![i] = OwnList(bandsArg)]
                   ELSE ownBands
    /\ Record([Call("init", i, res) EXCEPT !.path = filename,
                                           !.bandsArg = bandsArg])
    /\ UNCHANGED <<fileNoData, callerBands, outfile>>

ReadRaster(i, filename, bandsArg) ==
    LET res == ReadOutcome(filename, bandsArg) IN
    /\ obj[i].st # "none"
    /\ obj' = [obj EXCEPT ![i] = IF res = "ok" THEN LoadedObject(bandsArg) ELSE @]
    /\ ownBands' = IF res = "ok" THEN [ownBands EXCEPT ![i] = OwnList(bandsArg)]
                   ELSE ownBands
    /\ Record([Call("readraster", i, res) EXCEPT !.path = filename,
                                                 !.bandsArg = bandsArg])
    /\ UNCHANGED <<fileNoData, callerBands, outfile>>

\* ----------------------------------------------------------- preprocess
Ops == {"<", ">"}
Boundaries == {0, 4}
Replacements == {0}

\* (mutant: the comparisons taken inclusive)
Compare_inclusive(op, x, b) == IF op = "<" THEN x <= b ELSE x >= b

\* ops = {'<': operator.lt, '>': operator.gt}
Compare(op, x, b) == IF op = "<" THEN x < b ELSE x > b

\* DataArray.where(cond, other=replace), one band's pixels.
Where(px, op, boundary, replace) ==
    [p \in DOMAIN px |-> IF Compare(op, px[p], boundary) THEN px[p] ELSE replace]

WhereAll(data, op, boundary, replace) ==
    [b \in DOMAIN data |->
       Slice(data[b].label, Where(data[b].px, op, boundary, replace), data[b].org)]

PreprocessOutcome(i, op) ==
    IF obj[i].st # "loaded" THEN "AttributeError"
    ELSE IF op \notin Ops THEN "KeyError"
    ELSE "ok"

Preprocess(i, op, boundary, replace) ==
    LET res == PreprocessOutcome(i, op) IN
    /\ obj[i].st # "none"
    /\ obj' = [obj EXCEPT ![i].data =
                 IF res = "ok" THEN WhereAll(obj[i].data, op, boundary, replace)
                 ELSE @]
    /\ Record([Call("preprocess", i, res) EXCEPT !.cmp = op,
                                                 !.boundary = boundary,
                                                 !.replace = replace])
    /\ UNCHANGED <<fileNoData, callerBands, ownBands, outfile>>

\* ------------------------------------------------------------ addindices
\* The index functions of xrasterlib.indices: each reads the bands it needs by
\* position bands.index(name) and returns the derived band and its name.
IndexFns == {"fdi", "dvi"}

FnName(f) == IF f = "fdi" THEN "FDI" ELSE "DVI"

FnNeeds(f) == IF f = "fdi" THEN <<"NIR1", "Red", "Blue">> ELSE <<"NIR1", "Red">>

IndexFn(f, data, bands) ==
    LET needs == FnNeeds(f)
        pos(k) == IndexOf(bands, needs[k])
        val(k, p) == data[pos(k)].px[p]
    IN  IF \E k \in 1..Len(needs) : needs[k] \notin Range(bands)
        THEN [res |-> "ValueError", px |-> <<>>, name |-> ""]
        ELSE IF \E k \in 1..Len(needs) : pos(k) > Len(data)
        THEN [res |-> "IndexError", px |-> <<>>, name |-> ""]
        ELSE [res |-> "ok",
              px |-> [p \in 1..NPix |->
                        IF f = "fdi" THEN val(1, p) - (val(2, p) + val(3, p))
                        ELSE val(1, p) - val(2, p)],
              name |-> FnName(f)]

\* The lists of functions given to addindices: every list that names no
\* function twice.
AddArgs ==
    {q \in SeqsUpTo(IndexFns, Cardinality(IndexFns)) :
        \A j, k \in DOMAIN q : q[j] = q[k] => j = k}

\* (mutant: the new band concatenated before the array)
Concat_first(data, band) == <<band>> \o data

\* xr.concat([self.data, band], dim='band')
Concat(data, band) == Append(data, band)

\* The loop of addindices: every function sees the list and the array as the
\* functions before it left them; a function that raises ends the loop with
\* what was appended so far.
RECURSIVE AddLoop(_, _, _, _, _)
AddLoop(fns, bands, data, nbands, added) ==
    IF fns = <<>>
    THEN [res |-> "ok", bands |-> bands, data |-> data, nbands |-> nbands,
          added |-> added]
    ELSE LET r == IndexFn(Head(fns), data, bands) IN
         IF r.res # "ok"
         THEN [res |-> r.res, bands |-> bands, data |-> data,
               nbands |-> nbands + 1, added |-> added]
         ELSE AddLoop(Tail(fns), Append(bands, r.name),
                      Concat(data, Slice(nbands + 1, r.px, r.name)),
                      nbands + 1, Append(added, r.name))

\* [attrs[0]] * nbands
Replicate(attr, nbands) == [k \in 1..nbands |-> attr[1]]

AddIndices(i, fns) ==
    LET o == obj[i]
        loop == AddLoop(fns, BandsOf(i), o.data, Len(BandsOf(i)), <<>>)
        res == IF o.st # "loaded" THEN "AttributeError"
               ELSE IF ~HasList(o) THEN "TypeError"
               ELSE IF loop.res # "ok" THEN loop.res
               ELSE IF o.scales = <<>> THEN "IndexError"
               ELSE "ok"
        ran == o.st = "loaded" /\ HasList(o)
    IN
    /\ o.st # "none"
    /\ obj' = [obj EXCEPT ![i] =
                 IF ~ran THEN @
                 ELSE IF res # "ok" THEN [@ EXCEPT !.data = loop.data]
                 ELSE [@ EXCEPT !.data = loop.data,
                                !.scales = Replicate(o.scales, loop.nbands),
                                !.offsets = Replicate(o.offsets, loop.nbands)]]
    /\ callerBands' = IF ran /\ o.ref = "caller" THEN loop.bands ELSE callerBands
    /\ ownBands' = IF ran /\ o.ref = "own"
                   THEN [ownBands EXCEPT ![i] = loop.bands] ELSE ownBands
    /\ Record([Call("addindices", i, res) EXCEPT
                 !.fns = fns, !.added = IF ran THEN loop.added ELSE <<>>])
    /\ UNCHANGED <<fileNoData, outfile>>

\* ----------------------------------------------------------- dropindices
AllNames == FileBands \o <<"FDI", "DVI">>
Names == Range(AllNames)

\* The lists of names given to dropindices: every choice of at most MaxDrop
\* different names (listed in the order of AllNames), and every name twice.
RECURSIVE Pick(_, _)
Pick(S, k) ==
    IF k > Len(AllNames) THEN <<>>
    ELSE (IF k \in S THEN <<AllNames[k]>> ELSE <<>>) \o Pick(S, k + 1)

DropArgs ==
    {Pick(S, 1) : S \in {T \in SUBSET (1..Len(AllNames)) : Cardinality(T) <= MaxDrop}}
        \cup {<<n, n>> : n \in Names}

Labels(data) == [k \in DOMAIN data |-> data[k].label]

Unique(s) == \A j, k \in DOMAIN s : s[j] = s[k] => j = k

\* dropind = [self.bands.index(ind_id)+1 for ind_id in dropindices]
\* (labels and IndexOf both count from 1)
DropInd(bands, names) == [k \in DOMAIN names |-> IndexOf(bands, names[k])]

\* DataArray.drop(dim="band", labels=dropind): drops the slices whose
\* coordinate label is in dropind; a label that is not a coordinate is a
\* KeyError, and selecting on a coordinate with repeated labels fails.
DropOutcome(data, dropind) ==
    IF \E k \in DOMAIN dropind : dropind[k] = 0 THEN "ValueError"
    ELSE IF \E k \in DOMAIN dropind : dropind[k] \notin Range(Labels(data))
    THEN "KeyError"
    ELSE IF ~Unique(Labels(data)) THEN "InvalidIndexError"
    ELSE "ok"

DropSel(data, dropind) ==
    LET Kept(s) == s.label \notin Range(dropind) IN SelectSeq(data, Kept)

\* [band for band in self.bands if band not in dropindices]
Remaining(bands, names) ==
    LET Kept(b) == b \notin Range(names) IN SelectSeq(bands, Kept)

\* (mutant: the assertion asks for any name to be present, not all, and the
\* drop goes on with the names that are)
DropIndicesOutcome_any(i, names) ==
    LET o == obj[i]
        present == Remaining(names, Remaining(names, BandsOf(i)))
    IN
    IF o.st # "loaded" THEN "AttributeError"
    ELSE IF ~HasList(o) THEN "TypeError"
    ELSE IF names # <<>> /\ present = <<>> THEN "AssertionError"
    ELSE DropOutcome(o.data, DropInd(BandsOf(i), present))

\* The outcome of dropindices: the assertion, then the drop by label. (Run
\* with assertions off, list.index raises for the same lists instead.)
DropIndicesOutcome(i, names) ==
    LET o == obj[i] IN
    IF o.st # "loaded" THEN "AttributeError"
    ELSE IF ~HasList(o) THEN "TypeError"
    ELSE IF \E k \in DOMAIN names : names[k] \notin Range(BandsOf(i))
    THEN "AssertionError"
    ELSE DropOutcome(o.data, DropInd(BandsOf(i), names))

DropIndices(i, names) ==
    LET res == DropIndicesOutcome(i, names) IN
    /\ obj[i].st # "none"
    /\ obj' = [obj EXCEPT ![i] =
                 IF res = "ok"
                 THEN [@ EXCEPT !.data = DropSel(@, DropInd(BandsOf(i), names)),
                                !.ref = "own"]
                 ELSE @]
    /\ ownBands' = IF res = "ok"
                   THEN [ownBands EXCEPT ![i] = Remaining(BandsOf(i), names)]
                   ELSE ownBands
    /\ Record([Call("dropindices", i, res) EXCEPT !.names = names])
    /\ UNCHANGED <<fileNoData, callerBands, outfile>>

\* -------------------------------------------------------------- toraster
\* numpy's astype('int16') and assignment into an int16 array: 16-bit wrap.
Int16(x) == ((x + 32768) % 65536) - 32768

Masks == [1..NPix -> {MaskInvalid, MaskValid}]
Predictions == [1..NPix -> {0, 1}]

\* (mutant: the valid pixels of the mask stamped instead of the invalid ones)
StampMask_valid(mask, nd) ==
    [p \in DOMAIN mask |->
       IF Int16(mask[p]) = MaskValid THEN Int16(nd) ELSE Int16(mask[p])]

\* nodatavals[nodatavals == 0] = self.nodataval[0]
StampMask(mask, nd) ==
    [p \in DOMAIN mask |-> IF Int16(mask[p]) = MaskInvalid THEN Int16(nd)
                            ELSE Int16(mask[p])]

\* prediction[nodatavals == nd] = nodatavals[nodatavals == nd]
StampPrediction(prediction, nodatavals, nd) ==
    [p \in DOMAIN prediction |->
       IF nodatavals[p] = nd THEN nodatavals[p] ELSE prediction[p]]

\* The band dst.write puts in the int16 output.
Written(mask, prediction, nd) ==
    LET out == StampPrediction(prediction, StampMask(mask, nd), nd) IN
    [p \in DOMAIN out |-> Int16(out[p])]

ToRaster(i, mask, prediction) ==
    LET res == IF obj[i].st # "loaded" THEN "AttributeError" ELSE "ok" IN
    /\ obj[i].st # "none"
    /\ outfile' = IF res = "ok"
                  THEN [count |-> 1, dtype |-> "int16",
                        px |-> Written(mask, prediction, obj[i].nodataval[1])]
                  ELSE outfile
    /\ Record([Call("toraster", i, res) EXCEPT !.mask = mask,
                                               !.prediction = prediction])
    /\ UNCHANGED <<fileNoData, callerBands, ownBands, obj>>

\* ------------------------------------------------------------------ runs
Load(i) ==
    /\ nops < MaxOps
    /\ \/ \E a \in InitArgs : Construct(i, a[1], a[2])
       \/ \E a \in ReadArgs : ReadRaster(i, a[1], a[2])

Edit(i) ==
    /\ nops < MaxOps
    /\ \/ \E op \in Ops \cup {"="}, b \in Boundaries, r \in Replacements :
              Preprocess(i, op, b, r)
       \/ \E fns \in AddArgs : AddIndices(i, fns)
       \/ \E names \in DropArgs : DropIndices(i, names)

Write(i) ==
    /\ nops < MaxOps
    /\ \E m \in Masks, p \in Predictions : ToRaster(i, m, p)

\* The program: any calls on two Raster objects, in any order.
Next == Return \/ \E i \in Inst : Load(i) \/ Edit(i) \/ Write(i)

Spec == Init /\ [][Next]_vars

\* The program with one Raster object.
NextOne == Return \/ Load(1) \/ Edit(1)

SpecOne == Init /\ [][NextOne]_vars

\* Loading and writing predictions: toraster reads self.nodataval alone, which
\* only a load sets, so it is run for every nodata value the file may hold.
NextWrite == Return \/ \E i \in Inst : Load(i) \/ Write(i)

SpecWrite == InitWrite /\ [][NextWrite]_vars

\* ================================================================ claims
Pre(i) == last.pre[i]

Ran(op) == last.op = op /\ last.res = "ok"

\* The pixels and origins of an array's slices, without the labels.
Content(data) == [k \in DOMAIN data |-> [px |-> data[k].px, org |-> data[k].org]]

\* ---- C1: in every reachable state, an object loaded with a band-name list has
\* as many band names as its pixel array has bands.
C1_BandCount ==
    \A i \in Inst :
        (obj[i].st = "loaded" /\ HasList(obj[i]))
            => Len(BandsOf(i)) = Len(obj[i].data)

\* ---- C2: dropindices with names that are all present (on an object whose
\* names and bands pair up) succeeds, removes exactly the slices at the
\* positions of those names and those names, and keeps the rest in order.
C2_DropExact ==
    \A i \in Inst :
        (/\ last.op = "dropindices" /\ last.inst = i
         /\ Pre(i).st = "loaded" /\ Pre(i).ref \in {"caller", "own"}
         /\ Len(Pre(i).bands) = Len(Pre(i).data)
         /\ Range(last.names) \subseteq Range(Pre(i).bands))
        => LET kept == {k \in 1..Len(Pre(i).bands) :
                           Pre(i).bands[k] \notin Range(last.names)}
               dropped == {Pre(i).bands[k] : k \in 1..Len(Pre(i).bands)} \cap
                              Range(last.names)
           IN  /\ last.res = "ok"
               /\ Len(BandsOf(i)) = Cardinality(kept)
               /\ Len(obj[i].data) = Cardinality(kept)
               /\ \A k \in 1..Len(obj[i].data) :
                    \E j \in kept :
                        /\ Cardinality({m \in kept : m < j}) = k - 1
                        /\ BandsOf(i)[k] = Pre(i).bands[j]
                        /\ Content(obj[i].data)[k] = Content(Pre(i).data)[j]

\* ---- C3: dropindices with a name that is not in the band-name list fails with
\* the invalid-band (assertion) error and changes neither the pixel array nor
\* the band-name list, also when other names of the list are present.
C3_DropMissing ==
    \A i \in Inst :
        (/\ last.op = "dropindices" /\ last.inst = i
         /\ Pre(i).st = "loaded" /\ Pre(i).ref \in {"caller", "own"}
         /\ \E n \in Range(last.names) : n \notin Range(Pre(i).bands))
        => /\ last.res = "AssertionError"
           /\ View(i) = Pre(i)

C3_Witness ==
    /\ last.op = "dropindices" /\ last.res = "AssertionError"
    /\ \E n \in Range(last.names) : n \notin Range(Pre(last.inst).bands)
    /\ \E n \in Range(last.names) : n \in Range(Pre(last.inst).bands)
    /\ Len(Pre(last.inst).data) > Len(FileBands)

\* ---- C4: an addindices call with K functions that returns leaves the band
\* names as the previous names followed by the K returned names in the order
\* given, and the pixel array as the previous slices followed by the K bands
\* the functions returned, in that order.
C4_AddAppends ==
    \A i \in Inst :
        (Ran("addindices") /\ last.inst = i)
        => LET K == Len(last.fns)
               n == Len(Pre(i).data)
               m == Len(Pre(i).bands)
           IN  /\ BandsOf(i) = Pre(i).bands \o [k \in 1..K |-> FnName(last.fns[k])]
               /\ Len(obj[i].data) = n + K
               /\ SubSeq(obj[i].data, 1, n) = Pre(i).data
               /\ \A k \in 1..K :
                    LET r == IndexFn(last.fns[k], SubSeq(obj[i].data, 1, n + k - 1),
                                     SubSeq(BandsOf(i), 1, m + k - 1))
                    IN  /\ obj[i].data[n + k].org = FnName(last.fns[k])
                        /\ obj[i].data[n + k].px = r.px

C4_Witness ==
    /\ Ran("addindices")
    /\ last.fns = <<"fdi", "dvi">>
    /\ Len(Pre(last.inst).data) > Len(FileBands)

\* ---- C5: addindices with one function, then dropindices with the name it
\* returned, restores the band names and the bands there were before.
C5_RoundTrip ==
    \A i \in Inst :
        (/\ last.op = "dropindices" /\ last.inst = i
         /\ prior.valid /\ prior.inst = i
         /\ last.names = <<prior.name>>)
        => /\ last.res = "ok"
           /\ BandsOf(i) = prior.pre.bands
           /\ Content(obj[i].data) = Content(prior.pre.data)

\* ---- C6: preprocess('>', b, r) leaves every pixel p as p if p > b and as r
\* otherwise, preprocess('<', b, r) as p if p < b and as r otherwise; bands,
\* pixels per band and band names stay as they were.
C6_Threshold ==
    \A i \in Inst :
        (Ran("preprocess") /\ last.inst = i)
        => /\ BandsOf(i) = Pre(i).bands
           /\ obj[i].ref = Pre(i).ref
           /\ Len(obj[i].data) = Len(Pre(i).data)
           /\ \A k \in 1..Len(obj[i].data) :
                /\ DOMAIN obj[i].data[k].px = DOMAIN Pre(i).data[k].px
                /\ \A p \in DOMAIN obj[i].data[k].px :
                     LET old == Pre(i).data[k].px[p]
                         new == obj[i].data[k].px[p]
                     IN  /\ last.cmp = ">" =>
                               new = (IF old > last.boundary THEN old ELSE last.replace)
                         /\ last.cmp = "<" =>
                               new = (IF old < last.boundary THEN old ELSE last.replace)

C6_Witness ==
    /\ Ran("preprocess")
    /\ last.cmp = "<"
    /\ last.boundary # last.replace
    /\ \E k \in 1..Len(Pre(last.inst).data) : \E p, q \in 1..NPix :
          /\ Pre(last.inst).data[k].px[p] = last.boundary
          /\ Pre(last.inst).data[k].px[q] < last.boundary

\* ---- C7: readraster on an object constructed empty ends as the constructor
\* does for the same path and bands argument: both fail, or both leave the
\* same pixels, band names and nodata value.
C7_SameOutcome ==
    \A i \in Inst :
        (/\ last.op = "readraster" /\ last.inst = i
         /\ Pre(i).st = "empty")
        => LET c == InitOutcome(last.path, last.bandsArg)
               o == LoadedObject(last.bandsArg)
           IN  IF c = "ok"
               THEN /\ last.res = "ok"
                    /\ obj[i].data = o.data
                    /\ obj[i].nodataval = o.nodataval
                    /\ obj[i].ref = o.ref
                    /\ BandsOf(i) = (IF o.ref = "caller" THEN callerBands ELSE FileBands)
               ELSE last.res = c

\* ---- C8: preprocess, addindices and dropindices on one object change neither
\* the pixels nor the band names nor the nodata value of another object.
C8_NoSharing ==
    \A i, j \in Inst :
        (/\ last.op \in {"preprocess", "addindices", "dropindices"}
         /\ last.inst = i /\ j # i)
        => /\ View(j).bands = Pre(j).bands
           /\ View(j).data = Pre(j).data
           /\ View(j).nodataval = Pre(j).nodataval

C10_Metadata ==
    \A i \in Inst :
        (/\ Ran("addindices") \/ (Ran("dropindices") /\ last.names # <<>>)
         /\ last.inst = i)
        => /\ Len(obj[i].scales) = Len(obj[i].data)
           /\ Len(obj[i].offsets) = Len(obj[i].data)
           /\ \A k \in 1..Len(obj[i].scales) : obj[i].scales[k] = FileScales[1]
           /\ \A k \in 1..Len(obj[i].offsets) : obj[i].offsets[k] = FileOffsets[1]
           /\ obj[i].nodataval = Pre(i).nodataval

====
